---------------------------- MODULE Spec2Model ----------------------------
(***************************************************************************)
(* A model of the hierarchical DQN agent for Jenga                         *)
(* (deep_q_learning/deep_q_agent.py) and of the helpers in utils.py.       *)
(*                                                                         *)
(* Numbers.  Python floats are modelled in fixed point:                    *)
(*   - epsilon and the random draw r are integers in units of 1/Scale,     *)
(*     every product is rounded to the nearest unit (as a float product    *)
(*     is rounded to the nearest representable value);                     *)
(*   - Q-values and rewards of the agent are whole numbers and gamma is    *)
(*     the rational GammaNum/GammaDen, so a Bellman target is an integer   *)
(*     in units of 1/GammaDen;                                             *)
(*   - stabilities and rewards of calculate_reward are in tenths.          *)
(***************************************************************************)
EXTENDS Integers, Sequences, FiniteSets

VARIABLES
    num_actions,          \* <<num_actions_level_1, num_actions_level_2>>
    epsilon_start,        \* constructor argument, kept for reference
    epsilon,              \* self.epsilon
    steps_done,           \* self.steps_done
    policy_net_level_1,   \* parameters of self.policy_net_level_1
    policy_net_level_2,   \* parameters of self.policy_net_level_2
    target_net_level_1,   \* parameters of self.target_net_level_1
    target_net_level_2,   \* parameters of self.target_net_level_2
    memory,               \* self.memory, oldest transition first
    pushed,               \* history: every transition pushed so far
    last,                 \* what the last call did and returned
    rw,                   \* last call of calculate_reward
    taken_actions,        \* the caller's set of already-taken actions
    default_taken,        \* the default-argument set of get_possible_actions
    ga                    \* last call of get_possible_actions

agent_vars == <<num_actions, epsilon_start, epsilon, steps_done,
                policy_net_level_1, policy_net_level_2,
                target_net_level_1, target_net_level_2>>
util_vars == <<rw, taken_actions, default_taken, ga>>
vars == <<agent_vars, memory, pushed, last, util_vars>>

---------------------------------------------------------------------------
(* Bounds of the model *)

\* select_action is called at most MaxSteps times
MaxSteps == 4
\* capacity of the replay memory (ReplayMemory(10000) in the agent)
Capacity == 2

---------------------------------------------------------------------------
(* Arithmetic *)

\* resolution of epsilon and of random.random(): one unit is 1/Scale
Scale == 100
\* epsilon_end (0.1)
EpsilonEnd == 10
\* np.exp(-1. / self.epsilon_decay) in units of 1/Scale, epsilon_decay = 1
ExpNegUnit == 37
\* gamma = GammaNum / GammaDen (0.99)
GammaNum == 99
GammaDen == 100

Abs(x) == IF x < 0 THEN -x ELSE x

\* x * f for f in units of 1/Scale, rounded to the nearest unit
FMul(x, f) ==
    LET p == Abs(x) * f
        q == (2 * p + Scale) \div (2 * Scale)
    IN  IF x < 0 THEN -q ELSE q

\* np.exp(-1. * k / self.epsilon_decay) in units of 1/Scale
RECURSIVE ExpNeg(_)
ExpNeg(k) == IF k = 0 THEN Scale ELSE FMul(ExpNeg(k - 1), ExpNegUnit)

\* a schedule recomputed from epsilon_start at every call
DecayEpsilon_from_start(eps, steps) ==
    EpsilonEnd + FMul(epsilon_start - EpsilonEnd, ExpNeg(steps))

\* the recurrence of select_action, with the already incremented steps_done
DecayEpsilon(eps, steps) == EpsilonEnd + FMul(eps - EpsilonEnd, ExpNeg(steps))

---------------------------------------------------------------------------
(* Networks *)

States == {0, 1}
\* the parameter vectors a network can hold
Params == {0, 1}

INT_TO_COLOR == [i \in {0, 1, 2} |-> <<"y", "b", "g">>[i + 1]]
Colors == {INT_TO_COLOR[i] : i \in DOMAIN INT_TO_COLOR}

\* DQN.forward: the value vector of a network with parameters theta
Forward(theta, s, n) ==
    [a \in 0..(n - 1) |-> (((theta + 2) * (a + 1) * (s + 3)) % 7) - 3]

\* tensor.max(1)[0]: the largest entry of a value vector
MaxValue(v) ==
    CHOOSE m \in {v[a] : a \in DOMAIN v} : \A a \in DOMAIN v : v[a] <= m

\* tensor.argmax(dim=1).item(): the first index of the maximum
ArgMax(v) ==
    LET m == MaxValue(v)
    IN  CHOOSE a \in DOMAIN v : v[a] = m /\ \A b \in 0..(a - 1) : v[b] # m

\* random.randrange(a, b)
RandRange(a, b) == a..(b - 1)

\* random.random(), in units of 1/Scale
RandomDraws == {0, Scale \div 2, Scale - 1}

\* the (num_actions_level_1, num_actions_level_2) an agent is built with
Configs == {<<3, 3>>, <<12, 4>>}
OutputSizes == {c[1] : c \in Configs} \cup {c[2] : c \in Configs}

\* network(state).max(1)[0] and network(state).argmax(dim=1).item(), tabulated
\* over the parameters, states and output sizes of the model
MaxQ == [theta \in Params, s \in States, n \in OutputSizes |->
            MaxValue(Forward(theta, s, n))]
ArgMaxQ == [theta \in Params, s \in States, n \in OutputSizes |->
               ArgMax(Forward(theta, s, n))]

---------------------------------------------------------------------------
(* The record of the last call *)

NoCall == [op |-> "init", raised |-> "", branch |-> "", level |-> -1,
           color |-> "", batch_size |-> 0, called_sample |-> FALSE,
           batch |-> <<>>, expected_1 |-> <<>>, expected_2 |-> <<>>,
           replaced |-> <<>>]

---------------------------------------------------------------------------
(* HierarchicalDQNAgent *)

\* the level drawn by the Explore branch
ExploreLevels == RandRange(0, 9)
\* the color index drawn by the Explore branch
ExploreColorIndexes == RandRange(0, 2)

ExploitLevel(s) == ArgMaxQ[policy_net_level_1, s, num_actions[1]]
ExploitColorIndex(s) == ArgMaxQ[policy_net_level_2, s, num_actions[2]]

\* the pair the Exploit branch returns, or the KeyError of INT_TO_COLOR[...]
ExploitResult(s) ==
    IF ExploitColorIndex(s) \in DOMAIN INT_TO_COLOR
      THEN [NoCall EXCEPT !.op = "select_action", !.branch = "exploit",
                          !.level = ExploitLevel(s),
                          !.color = INT_TO_COLOR[ExploitColorIndex(s)]]
      ELSE [NoCall EXCEPT !.op = "select_action", !.branch = "exploit",
                          !.raised = "KeyError"]

\* the pair the Explore branch returns for the draws l and c
ExploreResult(l, c) ==
    [NoCall EXCEPT !.op = "select_action", !.branch = "explore",
                   !.level = l, !.color = INT_TO_COLOR[c]]

\* select_action(state) with random.random() = r; the state is read by the
\* Exploit branch only
select_action(r) ==
    /\ steps_done < MaxSteps
    /\ steps_done' = steps_done + 1
    /\ epsilon' = DecayEpsilon(epsilon, steps_done')
    /\ IF r > epsilon'
         THEN \E s \in States : last' = ExploitResult(s)
         ELSE \E l \in ExploreLevels, c \in ExploreColorIndexes :
                  last' = ExploreResult(l, c)
    /\ UNCHANGED <<num_actions, epsilon_start, policy_net_level_1,
                   policy_net_level_2, target_net_level_1, target_net_level_2,
                   memory, pushed, util_vars>>

---------------------------------------------------------------------------
(* ReplayMemory *)

\* a Transition is (state, action, reward, next_state, done); the action
\* carries the level index and the color index
Transitions ==
    { [state |-> 0, action |-> <<0, 1>>, reward |-> 4, next_state |-> 1, done |-> FALSE],
      [state |-> 1, action |-> <<2, 0>>, reward |-> -50, next_state |-> 0, done |-> TRUE] }

\* a buffer that never evicts
MemPush_unbounded(mem, t) == Append(mem, t)

\* ReplayMemory.push on a buffer of the given capacity
MemPush(mem, t) ==
    IF Len(mem) >= Capacity THEN Append(Tail(mem), t) ELSE Append(mem, t)

\* sampling with replacement
SampleIndices_with_replacement(n, k) == [1..k -> 1..n]

\* the positions random.sample(memory, k) can draw: k distinct ones, in any order
SampleIndices(n, k) ==
    {q \in [1..k -> 1..n] : \A i, j \in 1..k : i # j => q[i] # q[j]}

\* random.sample raises ValueError when the sample is larger than the population
SampleRaises(mem, k) == k > Len(mem)

\* ReplayMemory.__len__
MemLen(mem) == Len(mem)

\* self.memory.push(transition), as the training loop calls it (the history
\* pushed is kept by memory_push, for the replay memory on its own)
push(t) ==
    /\ memory' = MemPush(memory, t)
    /\ last' = [NoCall EXCEPT !.op = "push"]
    /\ UNCHANGED <<agent_vars, pushed, util_vars>>

---------------------------------------------------------------------------
(* optimize_model and update_target_net *)

\* torch.tensor(batch_done, dtype=torch.float32)
ToFloat(done) == IF done THEN 1 ELSE 0

\* a target that keeps the continuation value of terminal transitions
ExpectedQ_unmasked(next_q, reward, done) ==
    (next_q * GammaNum) + reward * GammaDen

\* (next_q_values * self.gamma * (1 - batch_done)) + batch_reward,
\* in units of 1/GammaDen
ExpectedQ(next_q, reward, done) ==
    (next_q * GammaNum * (1 - ToFloat(done))) + reward * GammaDen

\* self.target_net_level_1(batch_next_state).max(1)[0]
NextQLevel1(t) == MaxQ[target_net_level_1, t.next_state, num_actions[1]]
\* self.target_net_level_2(batch_next_state).max(1)[0]
NextQLevel2(t) == MaxQ[target_net_level_2, t.next_state, num_actions[2]]

\* expected_q_values_level_1 of the sampled transitions
ExpectedLevel1(batch) ==
    [i \in DOMAIN batch |->
        ExpectedQ(NextQLevel1(memory[batch[i]]), memory[batch[i]].reward,
                  memory[batch[i]].done)]
\* expected_q_values_level_2 of the sampled transitions
ExpectedLevel2(batch) ==
    [i \in DOMAIN batch |->
        ExpectedQ(NextQLevel2(memory[batch[i]]), memory[batch[i]].reward,
                  memory[batch[i]].done)]

\* an early return that lets a batch one larger than the memory through
InsufficientData_off_by_one(batch_size) == MemLen(memory) + 1 < batch_size

\* the early return: len(self.memory) < batch_size
InsufficientData(batch_size) == MemLen(memory) < batch_size

\* what optimize_model leaves alone when it does train
OptimizeFrame == UNCHANGED <<num_actions, epsilon_start, epsilon, steps_done,
                             target_net_level_1, target_net_level_2,
                             memory, pushed, util_vars>>

optimize_model(batch_size) ==
    IF InsufficientData(batch_size)
      THEN /\ last' = [NoCall EXCEPT !.op = "optimize_model",
                                     !.batch_size = batch_size]
           /\ UNCHANGED <<agent_vars, memory, pushed, util_vars>>
      ELSE IF SampleRaises(memory, batch_size)
      THEN \* self.memory.sample raises and optimize_model does not catch it
           /\ last' = [NoCall EXCEPT !.op = "optimize_model",
                                     !.batch_size = batch_size,
                                     !.called_sample = TRUE,
                                     !.raised = "ValueError"]
           /\ UNCHANGED <<agent_vars, memory, pushed, util_vars>>
      ELSE \E batch \in SampleIndices(MemLen(memory), batch_size) :
             /\ last' = [NoCall EXCEPT !.op = "optimize_model",
                                       !.batch_size = batch_size,
                                       !.called_sample = TRUE,
                                       !.batch = batch,
                                       !.expected_1 = ExpectedLevel1(batch),
                                       !.expected_2 = ExpectedLevel2(batch)]
             \* the Adam steps move each policy network to some parameters
             /\ policy_net_level_1' \in Params
             /\ policy_net_level_2' \in Params
             /\ OptimizeFrame

\* the level target loaded from the color policy
SyncedLevel1_crossed == policy_net_level_2

\* target_net.load_state_dict(policy_net.state_dict()), for both networks
SyncedLevel1 == policy_net_level_1
SyncedLevel2 == policy_net_level_2

update_target_net ==
    /\ target_net_level_1' = SyncedLevel1
    /\ target_net_level_2' = SyncedLevel2
    /\ last' = [NoCall EXCEPT !.op = "update_target_net",
                              !.replaced = <<target_net_level_1,
                                             target_net_level_2>>]
    /\ UNCHANGED <<num_actions, epsilon_start, epsilon, steps_done,
                   policy_net_level_1, policy_net_level_2,
                   memory, pushed, util_vars>>

---------------------------------------------------------------------------
(* The agent in its training loop *)

BatchSizes == 1..(Capacity + 1)

NoReward == [called |-> FALSE, action |-> <<0, "y">>, is_fallen |-> FALSE,
             previous_stability |-> [defined |-> FALSE, value |-> 0],
             current_stability |-> 0, reward |-> 0]

NoActions == [called |-> FALSE, used_default |-> FALSE, result |-> <<>>]

\* the state after HierarchicalDQNAgent.__init__
AgentInit ==
    /\ num_actions \in Configs
    /\ epsilon_start \in {Scale, EpsilonEnd}
    /\ epsilon = epsilon_start
    /\ steps_done = 0
    /\ policy_net_level_1 \in Params
    /\ policy_net_level_2 \in Params
    /\ target_net_level_1 = policy_net_level_1
    /\ target_net_level_2 = policy_net_level_2
    /\ memory = <<>>
    /\ pushed = <<>>
    /\ last = NoCall

UtilIdle ==
    /\ rw = NoReward
    /\ taken_actions = {}
    /\ default_taken = {}
    /\ ga = NoActions

Init == AgentInit /\ UtilIdle

Next ==
    \/ \E r \in RandomDraws : select_action(r)
    \/ \E t \in Transitions : push(t)
    \/ \E batch_size \in BatchSizes : optimize_model(batch_size)
    \/ update_target_net

Spec == Init /\ [][Next]_vars

---------------------------------------------------------------------------
(* The replay memory on its own, with the history of what was pushed *)

MaxPushes == Capacity + 2
SampleSizes == 0..(Capacity + 1)

\* memory.push(transition)
memory_push(t) ==
    /\ Len(pushed) < MaxPushes
    /\ memory' = MemPush(memory, t)
    /\ pushed' = Append(pushed, t)
    /\ last' = [NoCall EXCEPT !.op = "push"]
    /\ UNCHANGED <<agent_vars, util_vars>>

\* memory.sample(k): the positions of the transitions it returns, or ValueError
memory_sample(k) ==
    /\ IF SampleRaises(memory, k)
         THEN last' = [NoCall EXCEPT !.op = "sample", !.batch_size = k,
                                     !.called_sample = TRUE,
                                     !.raised = "ValueError"]
         ELSE \E batch \in SampleIndices(MemLen(memory), k) :
                last' = [NoCall EXCEPT !.op = "sample", !.batch_size = k,
                                       !.called_sample = TRUE,
                                       !.batch = batch]
    /\ UNCHANGED <<agent_vars, memory, pushed, util_vars>>

MemoryInit ==
    /\ AgentInit
    /\ num_actions = <<3, 3>>
    /\ epsilon_start = Scale
    /\ policy_net_level_1 = 0
    /\ policy_net_level_2 = 0
    /\ UtilIdle

MemoryNext ==
    \/ \E t \in Transitions : memory_push(t)
    \/ \E k \in SampleSizes : memory_sample(k)

SpecMemory == MemoryInit /\ [][MemoryNext]_vars

---------------------------------------------------------------------------
(* utils.calculate_reward; stabilities and the reward are in tenths *)

\* Python truthiness of previous_stability: None and 0 are falsy
Truthy(p) == p.defined /\ p.value # 0

\* a reward whose stability term has its operands swapped
calculate_reward_swapped(action, is_fallen, previous_stability, current_stability) ==
    LET base_reward == action[1] + (IF action[2] = "b" THEN 1 ELSE 0)
        stability_penalty == IF Truthy(previous_stability)
                               THEN current_stability - previous_stability.value
                               ELSE -current_stability
        fall_penalty == IF is_fallen THEN -50 ELSE 0
    IN  10 * base_reward + stability_penalty + 10 * fall_penalty

calculate_reward(action, is_fallen, previous_stability, current_stability) ==
    LET level == action[1]
        color == action[2]
        base_reward == level + (IF color = "b" THEN 1 ELSE 0)
        stability_penalty == IF Truthy(previous_stability)
                               THEN previous_stability.value - current_stability
                               ELSE -current_stability
        fall_penalty == IF is_fallen THEN -50 ELSE 0
    IN  10 * base_reward + stability_penalty + 10 * fall_penalty

RewardLevels == 0..3
Stabilities == {0, 5, 6, 8, 9}
PreviousStabilities ==
    {[defined |-> FALSE, value |-> 0]} \cup
    {[defined |-> TRUE, value |-> v] : v \in Stabilities}

call_calculate_reward(action, is_fallen, previous_stability, current_stability) ==
    /\ rw' = [called |-> TRUE, action |-> action, is_fallen |-> is_fallen,
              previous_stability |-> previous_stability,
              current_stability |-> current_stability,
              reward |-> calculate_reward(action, is_fallen,
                                          previous_stability, current_stability)]
    /\ UNCHANGED <<agent_vars, memory, pushed, last, taken_actions,
                   default_taken, ga>>

RewardInit == MemoryInit

RewardNext ==
    \E level \in RewardLevels, color \in Colors, is_fallen \in BOOLEAN,
       previous_stability \in PreviousStabilities,
       current_stability \in Stabilities :
        call_calculate_reward(<<level, color>>, is_fallen,
                              previous_stability, current_stability)

SpecReward == RewardInit /\ [][RewardNext]_vars

---------------------------------------------------------------------------
(* utils.get_possible_actions *)

\* environment.MAX_LEVEL and environment.MAX_BLOCKS_IN_LEVEL
MAX_LEVEL == 2
MAX_BLOCKS_IN_LEVEL == 2

\* {(level, color) for level in range(MAX_LEVEL) for color in range(MAX_BLOCKS_IN_LEVEL)}
FullActionSpace == (0..(MAX_LEVEL - 1)) \X (0..(MAX_BLOCKS_IN_LEVEL - 1))

\* what a caller may hold in taken_actions: actions of the game and one that is not
ActionUniverse == FullActionSpace \cup {<<MAX_LEVEL, 0>>}

ActionKey(a) == a[1] * MAX_BLOCKS_IN_LEVEL + a[2]

RECURSIVE SortedSeq(_)
SortedSeq(S) ==
    IF S = {} THEN <<>>
    ELSE LET m == CHOOSE x \in S : \A y \in S : ActionKey(x) <= ActionKey(y)
         IN  <<m>> \o SortedSeq(S \ {m})

\* list(a_set): each member once, in an order the caller cannot rely on
\* (here: a rotation of the sorted order)
ToList(S, order) ==
    LET q == SortedSeq(S)
    IN  [i \in 1..Len(q) |-> q[((i - 1 + order) % Len(q)) + 1]]
ListOrders(S) == IF S = {} THEN {0} ELSE 0..(Cardinality(S) - 1)

\* an enumerator that forgets the taken actions
Remaining_all(taken) == FullActionSpace

\* the set subtracted in get_possible_actions
Remaining(taken) == FullActionSpace \ taken

\* the set passed as taken_actions, after the call: the difference is a new
\* set and its operands are left as they were
TakenAfterCall(taken) == taken

get_possible_actions(use_default) ==
    LET arg == IF use_default THEN default_taken ELSE taken_actions
    IN  /\ \E order \in ListOrders(Remaining(arg)) :
              ga' = [called |-> TRUE, used_default |-> use_default,
                     result |-> ToList(Remaining(arg), order)]
        /\ IF use_default
             THEN /\ default_taken' = TakenAfterCall(default_taken)
                  /\ UNCHANGED taken_actions
             ELSE /\ taken_actions' = TakenAfterCall(taken_actions)
                  /\ UNCHANGED default_taken
        /\ UNCHANGED <<agent_vars, memory, pushed, last, rw>>

ActionsInit ==
    /\ AgentInit
    /\ num_actions = <<3, 3>>
    /\ epsilon_start = Scale
    /\ policy_net_level_1 = 0
    /\ policy_net_level_2 = 0
    /\ rw = NoReward
    /\ taken_actions \in SUBSET ActionUniverse
    /\ default_taken = {}
    /\ ga = NoActions

ActionsNext == \E use_default \in BOOLEAN : get_possible_actions(use_default)

SpecActions == ActionsInit /\ [][ActionsNext]_vars

---------------------------------------------------------------------------
(* Properties *)

Range(q) == {q[i] : i \in DOMAIN q}
SelectStep == steps_done' # steps_done

\* C1: select_action returns (level, color) with level in
\* [0, num_actions_level_1) and color in {y, b, g}, in the Exploit and in the
\* Explore branch, for every agent configuration.
C1_SelectActionInRange ==
    last.op = "select_action" =>
        /\ last.raised = ""
        /\ last.level \in 0..(num_actions[1] - 1)
        /\ last.color \in Colors

\* C2 as claimed: every select_action call strictly decreases epsilon, never
\* below epsilon_end, by the recurrence on the incremented steps_done.
C2_StrictlyDecreasing ==
    [][SelectStep =>
        /\ steps_done' = steps_done + 1
        /\ epsilon' = EpsilonEnd + FMul(epsilon - EpsilonEnd, ExpNeg(steps_done'))
        /\ epsilon' < epsilon
        /\ epsilon' >= EpsilonEnd]_vars

\* C2 as amended: with epsilon_start >= epsilon_end, every select_action call
\* increments steps_done, sets epsilon by the recurrence on the incremented
\* steps_done, and leaves epsilon no larger than before and no smaller than
\* epsilon_end.
C2_NeverIncreasing ==
    [][(SelectStep /\ epsilon_start >= EpsilonEnd) =>
        /\ steps_done' = steps_done + 1
        /\ epsilon' = EpsilonEnd + FMul(epsilon - EpsilonEnd, ExpNeg(steps_done'))
        /\ epsilon' <= epsilon
        /\ epsilon' >= EpsilonEnd]_vars

\* an agent built with epsilon_start above epsilon_end whose epsilon has
\* reached epsilon_end by the third call: the fourth call leaves it unchanged
C2_Stalled ==
    /\ last.op = "select_action"
    /\ epsilon_start > EpsilonEnd
    /\ steps_done = 4
    /\ epsilon = EpsilonEnd
    /\ DecayEpsilon(epsilon_start, 1) > EpsilonEnd
    /\ DecayEpsilon(DecayEpsilon(DecayEpsilon(epsilon_start, 1), 2), 3) = EpsilonEnd

\* C3: the target networks equal the policy networks at construction,
\* update_target_net copies policy_level into target_level and policy_color
\* into target_color, and no other operation changes a target network.
C3_TargetsAreSnapshots ==
    /\ target_net_level_1 = policy_net_level_1
    /\ target_net_level_2 = policy_net_level_2
    /\ [][IF last'.op = "update_target_net"
            THEN /\ target_net_level_1' = policy_net_level_1
                 /\ target_net_level_2' = policy_net_level_2
                 /\ UNCHANGED <<policy_net_level_1, policy_net_level_2>>
            ELSE UNCHANGED <<target_net_level_1, target_net_level_2>>]_vars

\* update_target_net has replaced target parameters that had gone stale
C3_Resynced ==
    /\ last.op = "update_target_net"
    /\ last.replaced # <<target_net_level_1, target_net_level_2>>
    /\ target_net_level_1 # target_net_level_2

\* C4: optimize_model(batch_size) with len(memory) < batch_size raises
\* nothing, does not call sample, and leaves the memory, the four networks,
\* epsilon and steps_done unchanged.
C4_InsufficientDataIsNoOp ==
    [][(last'.op = "optimize_model" /\ last'.batch_size > Len(memory)) =>
        /\ last'.raised = ""
        /\ ~last'.called_sample
        /\ UNCHANGED <<memory, policy_net_level_1, policy_net_level_2,
                       target_net_level_1, target_net_level_2,
                       epsilon, steps_done>>]_vars

\* optimize_model returned early on a memory that holds a transition
C4_SkippedStep ==
    /\ last.op = "optimize_model"
    /\ last.batch_size > Len(memory)
    /\ Len(memory) >= 1
    /\ ~last.called_sample

\* C5: for the level and the color sub-problem the Bellman target of every
\* sampled transition is reward + gamma * max_a target_net(next_state)[a] *
\* (1 - done), in units of 1/GammaDen; for a done transition it is the reward.
C5_BellmanTarget ==
    (last.op = "optimize_model" /\ last.called_sample /\ last.raised = "") =>
        /\ Len(last.batch) = last.batch_size
        /\ Len(last.expected_1) = last.batch_size
        /\ Len(last.expected_2) = last.batch_size
        /\ \A i \in 1..last.batch_size :
            LET t == memory[last.batch[i]]
                d == IF t.done THEN 1 ELSE 0
                max_1 == MaxValue(Forward(target_net_level_1, t.next_state,
                                          num_actions[1]))
                max_2 == MaxValue(Forward(target_net_level_2, t.next_state,
                                          num_actions[2]))
            IN  /\ last.expected_1[i] =
                       GammaDen * t.reward + GammaNum * max_1 * (1 - d)
                /\ last.expected_2[i] =
                       GammaDen * t.reward + GammaNum * max_2 * (1 - d)
                /\ t.done => /\ last.expected_1[i] = GammaDen * t.reward
                             /\ last.expected_2[i] = GammaDen * t.reward

\* a batch of two terminal transitions whose next states the target networks
\* value at something other than zero
C5_AllDoneBatch ==
    /\ last.op = "optimize_model"
    /\ last.called_sample
    /\ last.raised = ""
    /\ last.batch_size >= 2
    /\ \A i \in 1..last.batch_size :
          /\ memory[last.batch[i]].done
          /\ NextQLevel1(memory[last.batch[i]]) # 0
          /\ NextQLevel2(memory[last.batch[i]]) # 0

\* C6: calculate_reward returns base_reward + stability_penalty +
\* fall_penalty, with base_reward = level + (1 if blue), stability_penalty =
\* previous - current when previous is truthy and -current when it is None
\* or 0, fall_penalty = -50 if fallen; ((3,'b'), False, 0.8, 0.6) gives 4.2
\* and ((0,'y'), True, 0.5, 0.9) gives -50.4.  In tenths.
C6_RewardFormula ==
    rw.called =>
        LET prev == rw.previous_stability
            base == rw.action[1] + (IF rw.action[2] = "b" THEN 1 ELSE 0)
            stab == IF prev.defined /\ prev.value # 0
                      THEN prev.value - rw.current_stability
                      ELSE 0 - rw.current_stability
            fall == IF rw.is_fallen THEN -50 ELSE 0
        IN  /\ rw.reward = 10 * base + stab + 10 * fall
            /\ (/\ rw.action = <<3, "b">> /\ ~rw.is_fallen
                /\ prev = [defined |-> TRUE, value |-> 8]
                /\ rw.current_stability = 6) => rw.reward = 42
            /\ (/\ rw.action = <<0, "y">> /\ rw.is_fallen
                /\ prev = [defined |-> TRUE, value |-> 5]
                /\ rw.current_stability = 9) => rw.reward = -504

\* a fallen tower after a blue block of level 3, with a previous stability of 0
C6_ZeroPrevious ==
    /\ rw.called
    /\ rw.action = <<3, "b">>
    /\ rw.is_fallen
    /\ rw.previous_stability = [defined |-> TRUE, value |-> 0]
    /\ rw.current_stability = 6
    /\ rw.reward = -466

\* C7: get_possible_actions returns exactly the pairs of the full cross
\* product that are not in taken_actions, each once: nothing for the full
\* action space, MAX_LEVEL * MAX_BLOCKS_IN_LEVEL pairs for the empty set; and
\* no call modifies taken_actions or the shared default set.
C7_RemainingActions ==
    [][ga'.called =>
        LET arg == IF ga'.used_default THEN {} ELSE taken_actions
        IN  /\ Range(ga'.result) = {a \in FullActionSpace : a \notin arg}
            /\ Len(ga'.result) = Cardinality(Range(ga'.result))
            /\ FullActionSpace \subseteq arg => ga'.result = <<>>
            /\ arg = {} => Len(ga'.result) = MAX_LEVEL * MAX_BLOCKS_IN_LEVEL
            /\ taken_actions' = taken_actions
            /\ default_taken = {}
            /\ default_taken' = {}]_vars

\* a call with some actions of the game taken and at least two left
C7_SomeTaken ==
    /\ ga.called
    /\ ~ga.used_default
    /\ taken_actions \cap FullActionSpace # {}
    /\ taken_actions \ FullActionSpace # {}
    /\ Len(ga.result) >= 2

\* C8: the replay memory never holds more than its capacity, and holds
\* exactly the most recently pushed min(pushes, capacity) transitions, oldest
\* first.
C8_RingBuffer ==
    LET n == Len(pushed)
        kept == IF n < Capacity THEN n ELSE Capacity
    IN  /\ Len(memory) <= Capacity
        /\ Len(memory) = kept
        /\ \A i \in 1..kept : memory[i] = pushed[n - kept + i]

\* one push more than the capacity: the first-pushed transition is gone
C8_FirstEvicted ==
    /\ Len(pushed) = Capacity + 1
    /\ Len(memory) = Capacity
    /\ pushed[1] \notin Range(memory)

\* C9: sample(k) on a memory of fewer than k transitions raises and leaves
\* the memory unchanged; otherwise it returns k transitions from k distinct
\* positions of the memory and leaves the memory unchanged.
C9_Sample ==
    [][last'.op = "sample" =>
        /\ memory' = memory
        /\ IF last'.batch_size > Len(memory)
             THEN last'.raised = "ValueError" /\ last'.batch = <<>>
             ELSE /\ last'.raised = ""
                  /\ Len(last'.batch) = last'.batch_size
                  /\ \A i \in 1..last'.batch_size :
                        last'.batch[i] \in 1..Len(memory)
                  /\ Cardinality(Range(last'.batch)) = last'.batch_size]_vars

\* a sample as large as a full memory
C9_FullSample ==
    /\ last.op = "sample"
    /\ last.raised = ""
    /\ Len(memory) = Capacity
    /\ last.batch_size = Capacity
    /\ Len(last.batch) = Capacity

\* C10: the Explore branch can return every level in
\* [0, num_actions_level_1) and every color in {y, b, g}: whenever it has
\* returned, each legal pair is among the pairs its two draws can produce.
C10_ExploreCoversActionSpace ==
    (last.op = "select_action" /\ last.branch = "explore") =>
    \A level \in 0..(num_actions[1] - 1), color \in Colors :
        \E l \in ExploreLevels, c \in ExploreColorIndexes :
            /\ ExploreResult(l, c).level = level
            /\ ExploreResult(l, c).color = color

=============================================================================
